---- MODULE Spec2Model ----
(***************************************************************************)
(* Model of djangorest_alchemy/mixins.py:                                  *)
(*   - MultipleObjectMixin: the pagination adapter (PageSpec)              *)
(*   - make_action_method / ManagerMeta / ManagerMixin: the generated      *)
(*     action handlers and the class-creation step (Spec, ConcSpec)        *)
(* Python strings that the code converts (int(page), mname.lower()) are    *)
(* sequences of one-character strings, so that the conversions are         *)
(* computed and not assumed.                                               *)
(***************************************************************************)
EXTENDS Integers, Sequences, FiniteSets, TLC

\* ------------------------------------------------------------------ bounds
MaxItems == 4
MaxPerPage == 2
MaxPageInt == 3
MaxInstances == 2
NumReqs == 2

\* ------------------------------------------------------- python strings
Digits == <<"0", "1", "2", "3", "4", "5", "6", "7", "8", "9">>

IsDigit(c) == \E i \in 1..10 : Digits[i] = c

DigitVal(c) == (CHOOSE i \in 1..10 : Digits[i] = c) - 1

IsSpace(c) == c = " "

RECURSIVE LStrip(_)
LStrip(s) == IF s # <<>> /\ IsSpace(Head(s)) THEN LStrip(Tail(s)) ELSE s

RECURSIVE RStrip(_)
RStrip(s) ==
    IF s # <<>> /\ IsSpace(s[Len(s)]) THEN RStrip(SubSeq(s, 1, Len(s) - 1)) ELSE s

Strip(s) == RStrip(LStrip(s))

RECURSIVE DigitsValue(_)
DigitsValue(s) ==
    IF s = <<>> THEN 0
    ELSE 10 * DigitsValue(SubSeq(s, 1, Len(s) - 1)) + DigitVal(s[Len(s)])

AllDigits(s) == s # <<>> /\ \A i \in 1..Len(s) : IsDigit(s[i])

\* int(str): surrounding whitespace is dropped, one optional sign, then
\* decimal digits; anything else is a ValueError.
StrToInt(s) ==
    LET t == Strip(s)
        signed == t # <<>> /\ Head(t) \in {"+", "-"}
        body == IF signed THEN Tail(t) ELSE t
    IN  IF AllDigits(body)
        THEN [ok |-> TRUE,
              v |-> IF signed /\ Head(t) = "-" THEN 0 - DigitsValue(body)
                    ELSE DigitsValue(body)]
        ELSE [ok |-> FALSE, v |-> 0]

\* ------------------------------------------------- page identifiers
\* A value found under 'page' in the path kwargs or the query string:
\* missing (dict.get gives None), an int, or a str.
NoPage == [t |-> "none", v |-> 0, s |-> <<>>]
IntPage(n) == [t |-> "int", v |-> n, s |-> <<>>]
StrPage(s) == [t |-> "str", v |-> 0, s |-> s]

LAST == <<"l", "a", "s", "t">>

PageStrings ==
    { <<>>, <<"0">>, <<"1">>, <<"2">>, <<"3">>, <<"1", "0">>, <<"-", "1">>,
      <<"+", "2">>, <<" ", "2", " ">>, LAST, <<"L", "a", "s", "t">>,
      <<"l", "a", "s", "t", " ">>, <<"a", "b", "c">>, <<"1", ".", "5">>,
      <<"2", "a">>, <<"-">> }

PageValues ==
    {NoPage} \cup {IntPage(n) : n \in 0..MaxPageInt}
             \cup {StrPage(s) : s \in PageStrings}

\* Python truth value of a page identifier (None, 0 and '' are falsy).
Truthy(p) ==
    CASE p.t = "none" -> FALSE
      [] p.t = "int" -> p.v # 0
      [] p.t = "str" -> p.s # <<>>

\* int(page)
PyInt(p) ==
    IF p.t = "int" THEN [ok |-> TRUE, v |-> p.v] ELSE StrToInt(p.s)

\* ------------------------------------- django.core.paginator.Paginator
\* The default paginator_class, as far as the adapter uses it.
Paginator(object_list, per_page, orphans, allow_empty_first_page) ==
    [object_list |-> object_list, per_page |-> per_page, orphans |-> orphans,
     allow_empty_first_page |-> allow_empty_first_page]

Count(paginator) == Len(paginator.object_list)

Max(a, b) == IF a >= b THEN a ELSE b

CeilDiv(a, b) == (a + b - 1) \div b

NumPages(paginator) ==
    IF Count(paginator) = 0 /\ ~paginator.allow_empty_first_page THEN 0
    ELSE CeilDiv(Max(1, Count(paginator) - paginator.orphans), paginator.per_page)

\* Page(object_list, number, paginator)
Page(object_list, number, paginator) ==
    [object_list |-> object_list, number |-> number,
     num_pages |-> NumPages(paginator)]

HasOtherPages(page) == page.number > 1 \/ page.number < page.num_pages

NullPage == [object_list |-> <<>>, number |-> 0, num_pages |-> 0]

\* Python slice object_list[bottom:top]
Slice(list, bottom, top) == SubSeq(list, bottom + 1, IF top > Len(list) THEN Len(list) ELSE top)

\* Paginator.page(number): EmptyPage (a subclass of InvalidPage) when the
\* number is below 1 or beyond the last page.
PaginatorPage(paginator, number) ==
    LET bottom == (number - 1) * paginator.per_page
        top0 == bottom + paginator.per_page
        top == IF top0 + paginator.orphans >= Count(paginator)
               THEN Count(paginator) ELSE top0
    IN  IF number < 1 THEN [ok |-> FALSE, exc |-> "EmptyPage", page |-> NullPage]
        ELSE IF number > NumPages(paginator)
                /\ ~(number = 1 /\ paginator.allow_empty_first_page)
        THEN [ok |-> FALSE, exc |-> "EmptyPage", page |-> NullPage]
        ELSE [ok |-> TRUE, exc |-> "",
              page |-> Page(Slice(paginator.object_list, bottom, top), number, paginator)]

\* ------------------------------------------------ MultipleObjectMixin
\* A view is [allow_empty, paginate_by, kwargs_page]; a request carries
\* GET_page, the value of request.GET.get('page').
get_allow_empty(self) == self.allow_empty

get_paginate_by(self, query_object) == self.paginate_by

filter_query_object(self, query_object) == query_object

get_paginator(self, query_object, per_page, allow_empty_first_page) ==
    Paginator(query_object, per_page, 0, allow_empty_first_page)

\* Variant: the query string consulted before the path kwargs.
RequestedPage_QueryFirst(self, request) ==
    IF Truthy(request.GET_page) THEN request.GET_page
    ELSE IF Truthy(self.kwargs_page) THEN self.kwargs_page
    ELSE IntPage(1)

\* self.kwargs.get('page') or self.request.GET.get('page') or 1
RequestedPage(self, request) ==
    IF Truthy(self.kwargs_page) THEN self.kwargs_page
    ELSE IF Truthy(request.GET_page) THEN request.GET_page
    ELSE IntPage(1)

\* Variant: every ValueError taken for 'last'.
PageNumber_LastOnAnyError(page, paginator) ==
    LET n == PyInt(page)
    IN  IF n.ok THEN [ok |-> TRUE, v |-> n.v]
        ELSE [ok |-> TRUE, v |-> NumPages(paginator)]

\* try: int(page) / except ValueError: 'last' or InvalidPage
PageNumber(page, paginator) ==
    LET n == PyInt(page)
    IN  IF n.ok THEN [ok |-> TRUE, v |-> n.v]
        ELSE IF page = StrPage(LAST) THEN [ok |-> TRUE, v |-> NumPages(paginator)]
        ELSE [ok |-> FALSE, v |-> 0]

Raise(exc, page_calls) ==
    [kind |-> "raise", exc |-> exc, page |-> NullPage, object_list |-> <<>>,
     is_paginated |-> FALSE, page_calls |-> page_calls]

Return(page, object_list, is_paginated, page_calls) ==
    [kind |-> "return", exc |-> "", page |-> page, object_list |-> object_list,
     is_paginated |-> is_paginated, page_calls |-> page_calls]

NoResult == Raise("", <<>>)

\* Variant: no count == 0 guard, the paginator always asked for the page.
paginate_query_object_NoEmptyGuard(self, request, query_object, page_size) ==
    LET paginator == get_paginator(self, query_object, page_size, get_allow_empty(self))
        page == RequestedPage(self, request)
        page_number == PageNumber(page, paginator)
        got == PaginatorPage(paginator, page_number.v)
    IN  IF ~page_number.ok THEN Raise("InvalidPage", <<>>)
        ELSE IF got.ok
        THEN Return(got.page, got.page.object_list, HasOtherPages(got.page),
                    <<page_number.v>>)
        ELSE Raise(got.exc, <<page_number.v>>)

\* page_calls lists the numbers handed to paginator.page().
paginate_query_object(self, request, query_object, page_size) ==
    LET paginator == get_paginator(self, query_object, page_size, get_allow_empty(self))
        page == RequestedPage(self, request)
        page_number == PageNumber(page, paginator)
    IN  IF ~page_number.ok THEN Raise("InvalidPage", <<>>)
        ELSE IF ~(Count(paginator) = 0)
        THEN LET got == PaginatorPage(paginator, page_number.v)
             IN  IF got.ok
                 THEN Return(got.page, got.page.object_list,
                             HasOtherPages(got.page), <<page_number.v>>)
                 ELSE Raise(got.exc, <<page_number.v>>)
        ELSE Return(Page(<<>>, 1, paginator), <<>>, FALSE, <<>>)

\* get_page keeps only the item sequence of the tuple.
get_page(self, request, queryset) ==
    LET page_size == get_paginate_by(self, queryset)
        query_object == filter_query_object(self, queryset)
        got == paginate_query_object(self, request, query_object, page_size)
    IN  IF got.kind = "raise" THEN got
        ELSE Return(NullPage, got.object_list, FALSE, got.page_calls)

\* ---------------------------------------------------------- str.lower()
UpperCase == <<"A", "B", "C", "D", "E", "F", "G", "H", "I", "J", "K", "L", "M",
               "N", "O", "P", "Q", "R", "S", "T", "U", "V", "W", "X", "Y", "Z">>

LowerCase == <<"a", "b", "c", "d", "e", "f", "g", "h", "i", "j", "k", "l", "m",
               "n", "o", "p", "q", "r", "s", "t", "u", "v", "w", "x", "y", "z">>

LowerChar(c) ==
    IF \E i \in 1..26 : UpperCase[i] = c
    THEN LowerCase[CHOOSE i \in 1..26 : UpperCase[i] = c]
    ELSE c

Lower(name) == [i \in 1..Len(name) |-> LowerChar(name[i])]

\* ------------------------------------------------- dicts and responses
\* A dict is a set of <<key, value>> pairs with distinct keys.
HasKey(d, k) == \E kv \in d : kv[1] = k

Get(d, k) == (CHOOSE kv \in d : kv[1] = k)[2]

HTTP_200_OK == 200
HTTP_201_CREATED == 201
HTTP_202_ACCEPTED == 202

STATUS_CODES ==
    { <<"created", HTTP_201_CREATED>>, <<"updated", HTTP_200_OK>>,
      <<"accepted", HTTP_202_ACCEPTED>> }

\* What a manager method returns: None or a dict of string values.
PyNone == [t |-> "none", d |-> {}]
Dict(d) == [t |-> "dict", d |-> d]

\* `not resp`
Falsy(resp) == resp.t = "none" \/ resp.d = {}

NoOutcome == [kind |-> "none", exc |-> "", body |-> PyNone, status |-> 0, lookups |-> <<>>]

Response(body, status, lookups) ==
    [kind |-> "response", exc |-> "", body |-> body, status |-> status, lookups |-> lookups]

Raised(exc, lookups) ==
    [kind |-> "raise", exc |-> exc, body |-> PyNone, status |-> 0, lookups |-> lookups]

\* Variant: the status table ignored, every result answered with 200.
MakeResponse_Always200(resp) == Response(resp, HTTP_200_OK, <<>>)

\* Variant: STATUS_CODES.get(status, 200) instead of STATUS_CODES[status].
MakeResponse_DefaultOK(resp) ==
    IF Falsy(resp) THEN Response(resp, HTTP_200_OK, <<>>)
    ELSE IF ~HasKey(resp.d, "status") THEN Raised("KeyError", <<>>)
    ELSE LET st == Get(resp.d, "status")
         IN  IF HasKey(STATUS_CODES, st)
             THEN Response(resp, Get(STATUS_CODES, st), <<st>>)
             ELSE Response(resp, HTTP_200_OK, <<st>>)

\* Variant: no `if not resp` branch, resp['status'] read of every result.
MakeResponse_NoFalsyCheck(resp) ==
    IF resp.t = "none" THEN Raised("TypeError", <<>>)
    ELSE IF ~HasKey(resp.d, "status") THEN Raised("KeyError", <<>>)
    ELSE LET st == Get(resp.d, "status")
         IN  IF HasKey(STATUS_CODES, st)
             THEN Response(resp, Get(STATUS_CODES, st), <<st>>)
             ELSE Raised("KeyError", <<st>>)

\* Lines 98-102: the response for the manager method's result. lookups lists
\* the keys looked up in STATUS_CODES.
MakeResponse(resp) ==
    IF Falsy(resp) THEN Response(resp, HTTP_200_OK, <<>>)
    ELSE IF ~HasKey(resp.d, "status") THEN Raised("KeyError", <<>>)
    ELSE LET st == Get(resp.d, "status")
         IN  IF HasKey(STATUS_CODES, st)
             THEN Response(resp, Get(STATUS_CODES, st), <<st>>)
             ELSE Raised("KeyError", <<st>>)

\* ------------------------------------------------- make_action_method
NoHandler == [kind |-> "none", name |-> <<>>, bind_to_methods |-> <<>>, kwargs |-> {}]

\* The function object make_action_method returns: the closure's name and
\* the two attributes set on it.
make_action_method(name, methods, kwargs) ==
    [kind |-> "func", name |-> name, bind_to_methods |-> methods, kwargs |-> kwargs]

\* Variant: the assert on request.data left out.
Preconditions_NoDataAssert(self, req) ==
    IF ~self.has_manager_class THEN "AssertionError"
    ELSE IF ~self.has_manager_factory THEN "AssertionError"
    ELSE ""

\* The three asserts of func, in order ("" when all pass).
Preconditions(self, req) ==
    IF ~req.has_data THEN "AssertionError"
    ELSE IF ~self.has_manager_class THEN "AssertionError"
    ELSE IF ~self.has_manager_factory THEN "AssertionError"
    ELSE ""

\* Variant: one manager instance kept and handed to every caller.
manager_factory_Shared(self, context, fresh) ==
    IF ~self.has_manager_class THEN [ok |-> FALSE, mgr |-> [id |-> 0, cls |-> {}, context |-> 0]]
    ELSE [ok |-> TRUE,
          mgr |-> [id |-> 1, cls |-> self.manager_class.methods, context |-> context]]

\* ManagerMixin.manager_factory: a new instance of manager_class, built
\* from the arguments given; fresh is the identity of the new object.
NoManager == [id |-> 0, cls |-> {}, context |-> 0]

manager_factory(self, context, fresh) ==
    IF ~self.has_manager_class THEN [ok |-> FALSE, mgr |-> NoManager]
    ELSE [ok |-> TRUE,
          mgr |-> [id |-> fresh, cls |-> self.manager_class.methods, context |-> context]]

\* mgr_method = getattr(mgr, name)
HasMethod(mgr, name) == name \in mgr.cls

\* One entry of the record of manager-method calls.
MethodCall(mgr, name, req, pk) ==
    [mgr |-> mgr.id, name |-> name, data |-> req.data, pk |-> pk]

\* ------------------------------------------------ one call of func
\* An invocation of a generated handler h on the owning object self:
\* pc is the position in func; factory_calls and method_calls record the
\* calls it has made; ret is what the manager method returned.
NoRequest == [id |-> 0, has_data |-> FALSE, data |-> 0]

Idle ==
    [pc |-> "idle", h |-> NoHandler, req |-> NoRequest, pk |-> 0, mgr |-> NoManager,
     factory_calls |-> <<>>, method_calls |-> <<>>, ret |-> PyNone,
     outcome |-> NoOutcome]

Begin(h, req, pk) == [Idle EXCEPT !.pc = "start", !.h = h, !.req = req, !.pk = pk]

\* Lines 86-93: the asserts, then mgr = self.manager_factory(context=...)
EnterStep(i, self, fresh) ==
    LET pre == Preconditions(self, i.req)
        made == manager_factory(self, i.req.id, fresh)
    IN  IF pre # "" THEN [i EXCEPT !.pc = "done", !.outcome = Raised(pre, <<>>)]
        ELSE IF ~made.ok
        THEN [i EXCEPT !.pc = "done", !.outcome = Raised("AssertionError", <<>>),
                       !.factory_calls = <<[context |-> i.req.id, mgr |-> 0]>>]
        ELSE [i EXCEPT !.pc = "entered", !.mgr = made.mgr,
                       !.factory_calls = <<[context |-> i.req.id, mgr |-> made.mgr.id]>>]

\* Lines 94-96: getattr(mgr, name), then the call; ret is its result.
CallStep(i, ret) ==
    IF ~HasMethod(i.mgr, i.h.name)
    THEN [i EXCEPT !.pc = "done", !.outcome = Raised("AttributeError", <<>>)]
    ELSE [i EXCEPT !.pc = "called", !.ret = ret,
                   !.method_calls = <<MethodCall(i.mgr, i.h.name, i.req, i.pk)>>]

\* Lines 98-102
RespondStep(i) == [i EXCEPT !.pc = "done", !.outcome = MakeResponse(i.ret)]

\* func(self, request, pk) from its first line to its return or raise.
func(h, self, req, pk, fresh, ret) ==
    LET a == EnterStep(Begin(h, req, pk), self, fresh)
        b == IF a.pc = "entered" THEN CallStep(a, ret) ELSE a
    IN  IF b.pc = "called" THEN RespondStep(b) ELSE b

\* ------------------------------------------------------ class creation
N_DoThing == <<"D", "o">>
N_dothing == <<"d", "o">>
N_go == <<"g", "o">>

Names == {N_DoThing, N_dothing, N_go}

VerbLists == { <<"POST">>, <<"GET", "POST">> }

\* action_methods as a set of [name, methods] entries, one per key.
ActionMethods ==
    UNION { { {[name |-> n, methods |-> f[n]] : n \in D} : f \in [D -> VerbLists] }
            : D \in SUBSET Names }

Declared(am) == {e.name : e \in am}

\* A manager class: whether it has an action_methods attribute, the
\* mapping, and the names of the methods it defines (the declared ones
\* among them).
ManagerClasses ==
    { [has_action_methods |-> TRUE, action_methods |-> am, methods |-> Declared(am) \cup X]
        : am \in ActionMethods, X \in SUBSET Names }
    \cup { [has_action_methods |-> FALSE, action_methods |-> {}, methods |-> X]
             : X \in SUBSET Names }

NoManagerClass == [has_action_methods |-> FALSE, action_methods |-> {}, methods |-> {}]

NoHandlers == [n \in Names |-> NoHandler]

\* Class bodies: no handler, or one made by hand with make_action_method.
Bodies ==
    {NoHandlers}
    \cup { [NoHandlers EXCEPT ![n] = make_action_method(n, <<"GET">>, {})] : n \in Names }

\* The attrs of a class statement, and whether ManagerMixin is a base.
ClassAttrs ==
    { [uses_mixin |-> u, has_manager_class |-> TRUE, manager_class |-> m, body |-> b]
        : u \in BOOLEAN, m \in ManagerClasses, b \in Bodies }
    \cup { [uses_mixin |-> u, has_manager_class |-> FALSE,
              manager_class |-> NoManagerClass, body |-> b]
             : u \in BOOLEAN, b \in Bodies }

Undefined ==
    [defined |-> FALSE, has_manager_class |-> FALSE, has_manager_factory |-> FALSE,
     manager_class |-> NoManagerClass, handlers |-> NoHandlers]

\* type.__new__: the class has what its body defined.
TypeNew(attrs, handlers) ==
    [defined |-> TRUE, has_manager_class |-> attrs.has_manager_class,
     has_manager_factory |-> attrs.uses_mixin,
     manager_class |-> attrs.manager_class, handlers |-> handlers]

\* Variant: the handler made for the declared name as written.
ManagerMetaNew_NoLower(attrs) ==
    IF attrs.has_manager_class /\ attrs.manager_class.has_action_methods
    THEN TypeNew(attrs,
            [n \in Names |->
                IF n \in Declared(attrs.manager_class.action_methods)
                THEN LET e == CHOOSE e \in attrs.manager_class.action_methods : e.name = n
                     IN  make_action_method(n, e.methods, {})
                ELSE attrs.body[n]])
    ELSE TypeNew(attrs, attrs.body)

\* ManagerMeta.__new__
ManagerMetaNew(attrs) ==
    IF attrs.has_manager_class /\ attrs.manager_class.has_action_methods
    THEN TypeNew(attrs,
            [n \in Names |->
                IF n \in Declared(attrs.manager_class.action_methods)
                THEN LET e == CHOOSE e \in attrs.manager_class.action_methods : e.name = n
                     IN  make_action_method(Lower(n), e.methods, {})
                ELSE attrs.body[n]])
    ELSE TypeNew(attrs, attrs.body)

\* ------------------------------------------------------- pagination state
VARIABLES view, request, queryset, pg_call, pg_result

pgvars == <<view, request, queryset, pg_call, pg_result>>

\* Query objects: the rows 1..n in order.
QueryObjects == {[i \in 1..n |-> i] : n \in 0..MaxItems}

Views ==
    [allow_empty : BOOLEAN, paginate_by : 1..MaxPerPage, kwargs_page : PageValues]

Requests == [GET_page : PageValues]


\* ------------------------------------------------------- dispatch state
\* class_attrs: the class statement being executed; cls: the class once
\* created; cur: the latest handler call (handlers called one after the
\* other); inv: the calls in flight, one per concurrent request;
\* next_inst: the identity the next constructed manager gets.
VARIABLES class_attrs, cls, cur, inv, next_inst

dvars == <<class_attrs, cls, cur, inv, next_inst>>

vars == <<view, request, queryset, pg_call, pg_result,
          class_attrs, cls, cur, inv, next_inst>>

Reqs == 1..NumReqs

NoCall == [attr |-> <<>>, i |-> Idle]

Payloads == {10, 20}

PKs == {0, 7}

HttpRequests ==
    { [id |-> r, has_data |-> TRUE, data |-> d] : r \in Reqs, d \in Payloads }
    \cup { [id |-> r, has_data |-> FALSE, data |-> 0] : r \in Reqs }

Returns ==
    { PyNone, Dict({}), Dict({<<"id", "7">>}),
      Dict({<<"status", "created">>, <<"id", "7">>}) }
    \cup { Dict({<<"status", st>>}) : st \in {"created", "updated", "accepted", "bogus"} }

PageIdle ==
    /\ view = [allow_empty |-> TRUE, paginate_by |-> 1, kwargs_page |-> NoPage]
    /\ request = [GET_page |-> NoPage]
    /\ queryset = <<>>
    /\ pg_call = "none"
    /\ pg_result = NoResult

DispatchIdle ==
    /\ class_attrs = [uses_mixin |-> FALSE, has_manager_class |-> FALSE,
                      manager_class |-> NoManagerClass, body |-> NoHandlers]
    /\ cls = Undefined
    /\ cur = NoCall
    /\ inv = [r \in Reqs |-> NoCall]
    /\ next_inst = 1

Init ==
    /\ PageIdle
    /\ class_attrs \in ClassAttrs
    /\ cls = Undefined
    /\ cur = NoCall
    /\ inv = [r \in Reqs |-> NoCall]
    /\ next_inst = 1

\* The class statement runs: through ManagerMeta when ManagerMixin is a
\* base, through type otherwise.
DefineClass ==
    /\ ~cls.defined
    /\ cls' = IF class_attrs.uses_mixin THEN ManagerMetaNew(class_attrs)
              ELSE TypeNew(class_attrs, class_attrs.body)
    /\ UNCHANGED <<class_attrs, cur, inv, next_inst>>

\* A request is routed to the handler found under attr; the handler runs
\* to its return or raise.
Invoke(attr, req, pk, ret) ==
    /\ cls.defined
    /\ cls.handlers[attr].kind = "func"
    /\ cur.i.pc = "idle"
    /\ next_inst <= MaxInstances
    /\ LET i == func(cls.handlers[attr], cls, req, pk, next_inst, ret)
       IN  /\ cur' = [attr |-> attr, i |-> i]
           /\ next_inst' = next_inst + Len(i.factory_calls)
    /\ UNCHANGED <<class_attrs, cls, inv>>

\* The response (or the error) has gone to the framework; the worker is
\* free for the next request.
Finish ==
    /\ cur.i.pc = "done"
    /\ cur' = NoCall
    /\ UNCHANGED <<class_attrs, cls, inv, next_inst>>

Next ==
    \/ DefineClass /\ UNCHANGED pgvars
    \/ Finish /\ UNCHANGED pgvars
    \/ \E attr \in Names, req \in HttpRequests, pk \in PKs, ret \in Returns :
          Invoke(attr, req, pk, ret) /\ UNCHANGED pgvars

Spec == Init /\ [][Next]_vars

\* ------------------------------------------------- concurrent requests
\* Request r enters the handler found under attr; its payload is 10 * r
\* (its identifier, in ConcNext, 100 + r), so that a value that strays
\* from one request to another shows.
Enter(r, attr, pk, has_data) ==
    /\ cls.defined
    /\ cls.handlers[attr].kind = "func"
    /\ inv[r].i.pc = "idle"
    /\ LET req == [id |-> r, has_data |-> has_data, data |-> IF has_data THEN 10 * r ELSE 0]
           i == EnterStep(Begin(cls.handlers[attr], req, pk), cls, next_inst)
       IN  /\ inv' = [inv EXCEPT ![r] = [attr |-> attr, i |-> i]]
           /\ next_inst' = next_inst + Len(i.factory_calls)
    /\ UNCHANGED <<class_attrs, cls, cur>>

CallManager(r, ret) ==
    /\ inv[r].i.pc = "entered"
    /\ inv' = [inv EXCEPT ![r].i = CallStep(@, ret)]
    /\ UNCHANGED <<class_attrs, cls, cur, next_inst>>

Respond(r) ==
    /\ inv[r].i.pc = "called"
    /\ inv' = [inv EXCEPT ![r].i = RespondStep(@)]
    /\ UNCHANGED <<class_attrs, cls, cur, next_inst>>

ConcReturns == {PyNone, Dict({<<"status", "created">>}), Dict({<<"status", "bogus">>})}

\* Viewsets on ManagerMixin whose manager declares POST actions and
\* defines the methods it declares.
ConcClassAttrs ==
    { a \in ClassAttrs :
        /\ a.uses_mixin /\ a.has_manager_class /\ a.body = NoHandlers
        /\ a.manager_class.has_action_methods
        /\ a.manager_class.methods = Declared(a.manager_class.action_methods)
        /\ \A e \in a.manager_class.action_methods : e.methods = <<"POST">> }

ConcInit ==
    /\ PageIdle
    /\ class_attrs \in ConcClassAttrs
    /\ cls = Undefined
    /\ cur = NoCall
    /\ inv = [r \in Reqs |-> NoCall]
    /\ next_inst = 1

ConcNext ==
    \/ DefineClass /\ UNCHANGED pgvars
    \/ \E r \in Reqs, attr \in Names, has_data \in BOOLEAN :
          Enter(r, attr, 100 + r, has_data) /\ UNCHANGED pgvars
    \/ \E r \in Reqs, ret \in ConcReturns : CallManager(r, ret) /\ UNCHANGED pgvars
    \/ \E r \in Reqs : Respond(r) /\ UNCHANGED pgvars

ConcSpec == ConcInit /\ [][ConcNext]_vars

\* ---------------------------------------------------- pagination calls
PageInit ==
    /\ DispatchIdle
    /\ view \in Views
    /\ request \in Requests
    /\ queryset \in QueryObjects
    /\ pg_call = "none"
    /\ pg_result = NoResult

CallPaginateQueryObject ==
    /\ pg_call = "none"
    /\ pg_call' = "paginate_query_object"
    /\ pg_result' = paginate_query_object(view, request, queryset, view.paginate_by)
    /\ UNCHANGED <<view, request, queryset>>

CallGetPage ==
    /\ pg_call = "none"
    /\ pg_call' = "get_page"
    /\ pg_result' = get_page(view, request, queryset)
    /\ UNCHANGED <<view, request, queryset>>

PageNext ==
    \/ CallPaginateQueryObject /\ UNCHANGED dvars
    \/ CallGetPage /\ UNCHANGED dvars

PageSpec == PageInit /\ [][PageNext]_vars

\* =========================================================== properties
\* ------------------------------------------------------------ pagination
\* The identifier as the request states it: the path parameter when there
\* is one, otherwise the query-string parameter (NoPage when neither).
StatedPage ==
    IF view.kwargs_page # NoPage THEN view.kwargs_page ELSE request.GET_page

\* An identifier that counts: present, not the empty string, not 0.
Given(p) == (p.t = "str" /\ p.s # <<>>) \/ (p.t = "int" /\ p.v # 0)

\* The identifier the adapter goes by: the first of path parameter and
\* query-string parameter that counts (NoPage when neither does).
UsedPage ==
    IF Given(view.kwargs_page) THEN view.kwargs_page
    ELSE IF Given(request.GET_page) THEN request.GET_page
    ELSE NoPage

Unparsable(p) == p # NoPage /\ ~PyInt(p).ok /\ p # StrPage(LAST)

ThePaginator == Paginator(queryset, view.paginate_by, 0, view.allow_empty)

EmptyPageOne ==
    /\ pg_result.kind = "return"
    /\ pg_result.object_list = <<>>
    /\ ~pg_result.is_paginated
    /\ pg_call = "paginate_query_object" =>
          /\ pg_result.page.number = 1
          /\ pg_result.page.object_list = <<>>
          /\ ~HasOtherPages(pg_result.page)

C3_EmptyDisallowedRaises ==
    (pg_call # "none" /\ ~view.allow_empty /\ Len(queryset) = 0) =>
        pg_result.kind = "raise"

\* C7 as stated: every page identifier that int() rejects and that is not
\* 'last' makes paginate_query_object raise InvalidPage, whatever the
\* query object holds.
C7_UnparsableAlwaysInvalid ==
    (pg_call = "paginate_query_object" /\ Unparsable(StatedPage)) =>
        (pg_result.kind = "raise" /\ pg_result.exc = "InvalidPage")

\* C7 amended: every non-empty page identifier (the path parameter, or the
\* query-string parameter when the path gives none or an empty one) that
\* int() rejects and that is not 'last' makes paginate_query_object raise
\* InvalidPage and return no page, whatever the query object holds.
C7_UnparsableGivenInvalid ==
    (pg_call # "none" /\ Unparsable(UsedPage)) =>
        /\ pg_result.kind = "raise"
        /\ pg_result.exc = "InvalidPage"
        /\ pg_result.page = NullPage
        /\ pg_result.page_calls = <<>>

C7_Witness ==
    /\ pg_call = "paginate_query_object"
    /\ Len(queryset) > 0
    /\ view.kwargs_page = NoPage
    /\ request.GET_page = StrPage(<<"a", "b", "c">>)
    /\ pg_result.exc = "InvalidPage"

\* C8: for a non-empty query object get_page returns the object_list of
\* paginator.page(n): n the integer value of the identifier when that is
\* an integer in 1..num_pages, n = num_pages when it is 'last', n = 1 when
\* neither path nor query string gives one; the path parameter goes
\* before the query-string parameter.
C8_ReturnsPaginatorPage ==
    (pg_call = "get_page" /\ Len(queryset) > 0) =>
        LET n == PyInt(StatedPage)
            expect(k) ==
                /\ pg_result.kind = "return"
                /\ pg_result.object_list = PaginatorPage(ThePaginator, k).page.object_list
                /\ pg_result.object_list =
                      Slice(queryset, (k - 1) * view.paginate_by, k * view.paginate_by)
        IN  /\ (StatedPage # NoPage /\ n.ok /\ n.v \in 1..NumPages(ThePaginator))
                  => expect(n.v)
            /\ StatedPage = StrPage(LAST) => expect(NumPages(ThePaginator))
            /\ StatedPage = NoPage => expect(1)

C8_Witness ==
    /\ pg_call = "get_page"
    /\ Len(queryset) = 3
    /\ view.paginate_by = 2
    /\ view.kwargs_page = StrPage(<<" ", "2", " ">>)
    /\ request.GET_page = StrPage(<<"1">>)
    /\ pg_result.object_list = <<3>>

\* -------------------------------------------------------------- dispatch
TheManager == class_attrs.manager_class

\* The class went through ManagerMeta with a manager that declares actions.
Bound ==
    /\ cls.defined
    /\ class_attrs.uses_mixin
    /\ class_attrs.has_manager_class
    /\ TheManager.has_action_methods

\* The latest handler call got past its asserts and has ended.
Ran == cur.i.pc = "done" /\ cur.i.factory_calls # <<>>

\* The manager method was called and returned cur.i.ret.
Returned == cur.i.pc = "done" /\ Len(cur.i.method_calls) = 1

StatusOf(ret) == IF HasKey(ret.d, "status") THEN Get(ret.d, "status") ELSE ""

C4_StatusMapsToCode ==
    (Returned /\ ~Falsy(cur.i.ret)) =>
        LET st == StatusOf(cur.i.ret)
            answered(code) ==
                /\ cur.i.outcome.kind = "response"
                /\ cur.i.outcome.status = code
                /\ cur.i.outcome.body = cur.i.ret
        IN  /\ st = "created" => answered(201)
            /\ st = "updated" => answered(200)
            /\ st = "accepted" => answered(202)

C4_Witness ==
    /\ Returned
    /\ cur.i.ret = Dict({<<"status", "created">>, <<"id", "7">>})
    /\ cur.i.outcome.status = 201
    /\ cur.i.outcome.body = cur.i.ret

\* C5: a truthy result whose status is none of 'created', 'updated',
\* 'accepted' makes the handler raise KeyError; there is no response and
\* no fallback code.
C5_UnknownStatusKeyError ==
    (Returned /\ ~Falsy(cur.i.ret) /\ HasKey(cur.i.ret.d, "status")
       /\ StatusOf(cur.i.ret) \notin {"created", "updated", "accepted"}) =>
        /\ cur.i.outcome.kind = "raise"
        /\ cur.i.outcome.exc = "KeyError"
        /\ cur.i.outcome.status = 0

C5_Witness ==
    /\ Returned
    /\ cur.i.ret = Dict({<<"status", "bogus">>})
    /\ cur.i.outcome.exc = "KeyError"

\* C6: a falsy result (None or an empty mapping) is answered with code 200
\* and that same value as body, and the status table is not consulted.
C6_FalsyIs200 ==
    (Returned /\ (cur.i.ret = PyNone \/ cur.i.ret = Dict({}))) =>
        /\ cur.i.outcome.kind = "response"
        /\ cur.i.outcome.status = 200
        /\ cur.i.outcome.body = cur.i.ret
        /\ cur.i.outcome.lookups = <<>>

C6_Witness ==
    /\ Returned
    /\ cur.i.ret = Dict({})
    /\ cur.i.outcome.status = 200
    /\ cur.i.outcome.body = Dict({})

\* C9: the preconditions are checked when the handler is called, not when
\* it is made: a call with no request.data, no manager_class or no
\* manager_factory ends in AssertionError with the factory not called and
\* no manager method called; making the handler succeeds all the same.
C9_AssertsAtCallTime ==
    /\ cls.defined =>
          \A n \in Names :
              (class_attrs.body[n].kind = "func"
                 \/ (Bound /\ n \in Declared(TheManager.action_methods)))
              => cls.handlers[n].kind = "func"
    /\ (cur.i.pc = "done"
          /\ (~cur.i.req.has_data \/ ~cls.has_manager_class \/ ~cls.has_manager_factory))
       => /\ cur.i.outcome.kind = "raise"
          /\ cur.i.outcome.exc = "AssertionError"
          /\ cur.i.factory_calls = <<>>
          /\ cur.i.method_calls = <<>>
          /\ cur.i.mgr = NoManager

C9_Witness ==
    /\ cur.i.pc = "done"
    /\ cur.i.req.has_data
    /\ cls.has_manager_class
    /\ ~cls.has_manager_factory
    /\ cur.i.outcome.exc = "AssertionError"
    /\ cur.i.factory_calls = <<>>

====
